---- MODULE Spec2Model ----
(***************************************************************************)
(* Model of the timezone.baby route page: the code resolver, the input     *)
(* parser and the page render of src/, in each variant the repository      *)
(* keeps.                                                                  *)
(*                                                                         *)
(* Page variants (oldest first):                                           *)
(*   "A"  src/unnamed/part_001:307     country-only, "now" from local clock*)
(*   "B"  src/app/[input]/page.tsx:66  country-only                        *)
(*   "C"  src/app/[input]/page.tsx:421 country-only, time picker form      *)
(*   "D"  src/unnamed/part_002:174     parseUserInput, lengths [4,3,2]     *)
(*   "E"  src/unnamed/part_002:812     parseUserInput, lengths [3,2]       *)
(*                                                                         *)
(* A JavaScript string is a sequence of one-character strings, so that     *)
(* slicing, trimming and case conversion are computed, not assumed.        *)
(***************************************************************************)
EXTENDS Integers, Sequences, FiniteSets, TLC

VARIABLES
    variant,    \* which page variant is deployed
    input,      \* the route token of the last navigation
    screen,     \* what the page rendered
    echo,       \* the text the warning message quotes
    parsed,     \* the value parseUserInput returned (variants D, E)
    zone,       \* the base timezone of the display
    hour,       \* the hour handed to DateTime.fromObject
    minute,     \* the minute handed to DateTime.fromObject
    shown,      \* the base time as displayed
    code,       \* argument of the last direct getTimeZoneFromCode call
    zoneInfoV1, \* its result in the first parser variant
    zoneInfoV2, \* its result in the latest parser variant
    clock,      \* the wall clock: seconds since 2025-01-01T00:00:00Z
    hostZone,   \* the zone of the machine the page runs on
    sampled,    \* the wall-clock reading a "now" page last took
    currentTime,        \* the currentTime state of the latest variant
    baseTime,           \* the base DateTime of the last render
    formattedLocalTime, \* the base time as text
    selectedCountries,  \* the comparison list
    selectedTimes,      \* the time shown in each row of the comparison list
    popularTimes,       \* the time shown in each row of the popular list
    intervals,  \* how many setInterval timers are active
    cancelled,  \* whether leaving the last page cleared a timer
    tzMap,      \* the object the module constant SPECIAL_TZ_MAP refers to
    countries,  \* the array the import countriesData refers to
    calls,      \* the direct calls made so far, with what they returned
    homeForm,   \* which Home form is open, "none" when none is
    search,     \* the text of the Home form's search box
    selectedCountry,    \* the country picked on the Home form, or null
    timeMode,   \* the Home form's time mode
    timeValue,  \* the Home form's time field
    error,      \* the message the Home form shows
    route,      \* the route the Home form pushed, empty when none
    expandedGroups      \* the continents CountrySelector shows expanded

vars == <<variant, input, screen, echo, parsed, zone, hour, minute, shown,
          code, zoneInfoV1, zoneInfoV2, clock, hostZone, sampled, currentTime,
          baseTime, formattedLocalTime, selectedCountries, selectedTimes,
          popularTimes, intervals, cancelled, tzMap, countries, calls,
          homeForm, search, selectedCountry, timeMode, timeValue, error, route,
          expandedGroups>>

pageVars == <<variant, input, screen, echo, parsed, zone, hour, minute, shown>>
callVars == <<code, zoneInfoV1, zoneInfoV2>>
moduleVars == <<tzMap, countries, calls>>
homeVars == <<homeForm, search, selectedCountry, timeMode, timeValue, error, route>>
hostVars == <<clock, hostZone>>
timeVars == <<sampled, currentTime, baseTime, formattedLocalTime,
              selectedCountries, selectedTimes, popularTimes, intervals,
              cancelled>>

-----------------------------------------------------------------------------
(* JavaScript strings and conversions                                      *)

Chars(s) == [i \in 1..Len(s) |-> SubSeq(s, i, i)]

LowerLetters == Chars("abcdefghijklmnopqrstuvwxyz")
UpperLetters == Chars("ABCDEFGHIJKLMNOPQRSTUVWXYZ")
DigitChars == Chars("0123456789")
WhiteSpace == {" "}

Range(f) == {f[i] : i \in DOMAIN f}
IndexIn(c, seq) == CHOOSE i \in DOMAIN seq : seq[i] = c

\* U+212A KELVIN SIGN, a letter outside ASCII whose lower case is "k" and
\* whose upper case is itself
KelvinSign == "U+212A"

toUpperChar(c) ==
    IF c \in Range(LowerLetters) THEN UpperLetters[IndexIn(c, LowerLetters)] ELSE c
toLowerChar(c) ==
    IF c \in Range(UpperLetters) THEN LowerLetters[IndexIn(c, UpperLetters)]
    ELSE IF c = KelvinSign THEN "k"
    ELSE c

toUpperCase(s) == [i \in 1..Len(s) |-> toUpperChar(s[i])]
toLowerCase(s) == [i \in 1..Len(s) |-> toLowerChar(s[i])]

RECURSIVE trimStart(_)
trimStart(s) ==
    IF s # <<>> /\ Head(s) \in WhiteSpace THEN trimStart(Tail(s)) ELSE s

RECURSIVE trimEnd(_)
trimEnd(s) ==
    IF s # <<>> /\ s[Len(s)] \in WhiteSpace
    THEN trimEnd(SubSeq(s, 1, Len(s) - 1))
    ELSE s

trim(s) == trimEnd(trimStart(s))

Min(a, b) == IF a < b THEN a ELSE b

\* s.slice(from, to) and s.substring(from, to) for 0 <= from <= to
slice(s, from, to) == SubSeq(s, from + 1, Min(to, Len(s)))
\* s.slice(from)
sliceFrom(s, from) == SubSeq(s, from + 1, Len(s))

isDigit(c) == c \in Range(DigitChars)
allDigits(s) == \A i \in 1..Len(s) : isDigit(s[i])
digitValue(c) == IndexIn(c, DigitChars) - 1

RECURSIVE decimalValue(_)
decimalValue(s) ==
    IF s = <<>> THEN 0
    ELSE 10 * decimalValue(SubSeq(s, 1, Len(s) - 1)) + digitValue(s[Len(s)])

\* A JavaScript number that parseInt returns: NaN, or an integer
NaN == [nan |-> TRUE]
Num(n) == [nan |-> FALSE, value |-> n]
\* x <= n and x > n in JavaScript: both false when x is NaN
leq(x, n) == ~ x.nan /\ x.value <= n
gt(x, n) == ~ x.nan /\ x.value > n

\* the longest prefix of s made of digits
RECURSIVE digitPrefix(_)
digitPrefix(s) ==
    IF s # <<>> /\ isDigit(Head(s)) THEN <<Head(s)>> \o digitPrefix(Tail(s)) ELSE <<>>

\* parseInt(s, 10): leading white space, an optional sign, then the longest
\* run of digits; NaN when there is no digit there.
parseInt(s) ==
    LET t == trimStart(s)
        neg == t # <<>> /\ Head(t) = "-"
        body == IF t # <<>> /\ Head(t) \in {"+", "-"} THEN Tail(t) ELSE t
        ds == digitPrefix(body)
    IN  IF ds = <<>> THEN NaN
        ELSE IF neg THEN Num(0 - decimalValue(ds)) ELSE Num(decimalValue(ds))

\* StrUnsignedDecimalLiteral: digits [. digits] [e [sign] digits], with a
\* digit before or after the point, or "Infinity".
isUnsignedDecimal(s) ==
    \/ s = Chars("Infinity")
    \/ \E i \in 0..Len(s) : \E j \in i..Len(s) :
          LET int == SubSeq(s, 1, i)
              mid == SubSeq(s, i + 1, j)
              exp == SubSeq(s, j + 1, Len(s))
              frac == IF mid = <<>> THEN <<>> ELSE Tail(mid)
              expBody == IF exp = <<>> THEN <<>> ELSE Tail(exp)
              expDigits == IF expBody # <<>> /\ Head(expBody) \in {"+", "-"}
                           THEN Tail(expBody) ELSE expBody
          IN  /\ allDigits(int)
              /\ mid = <<>> \/ (Head(mid) = "." /\ allDigits(frac))
              /\ Len(int) + Len(frac) >= 1
              /\ exp = <<>> \/ (Head(exp) \in {"e", "E"} /\ expDigits # <<>>
                                /\ allDigits(expDigits))

isRadixLiteral(s) ==
    /\ Len(s) >= 3
    /\ s[1] = "0"
    /\ LET ds == SubSeq(s, 3, Len(s)) IN
       \/ s[2] \in {"x", "X"} /\ \A i \in 1..Len(ds) :
             isDigit(ds[i]) \/ ds[i] \in Range(Chars("abcdefABCDEF"))
       \/ s[2] \in {"o", "O"} /\ \A i \in 1..Len(ds) : ds[i] \in Range(Chars("01234567"))
       \/ s[2] \in {"b", "B"} /\ \A i \in 1..Len(ds) : ds[i] \in {"0", "1"}

\* isNaN(Number(s)): Number trims white space, reads "" as 0, and accepts
\* radix literals and signed decimal literals.
isNaNNumber(s) ==
    LET t == trim(s)
        unsigned == IF t # <<>> /\ Head(t) \in {"+", "-"} THEN Tail(t) ELSE t
    IN  ~ \/ t = <<>>
          \/ isRadixLiteral(t)
          \/ isUnsignedDecimal(unsigned)

-----------------------------------------------------------------------------
(* Static tables                                                           *)

Null == [kind |-> "null"]
\* A TypeError raised while the function ran
Thrown == [kind |-> "throw"]

\* The abbreviation table of the first parser variant, as the module
\* creates it
SPECIAL_TZ_MAP ==
    (Chars("CET") :> "Europe/Paris") @@
    (Chars("IST") :> "Asia/Kolkata") @@
    (Chars("PST") :> "America/Los_Angeles") @@
    (Chars("UTC") :> "UTC")

\* The abbreviation table of the latest parser variant
getSpecialTzMap ==
    (Chars("CET") :> "Europe/Paris") @@
    (Chars("IST") :> "Asia/Kolkata") @@
    (Chars("PST") :> "America/Los_Angeles") @@
    (Chars("UTC") :> "UTC") @@
    (Chars("EST") :> "America/New_York") @@
    (Chars("GMT") :> "Europe/London") @@
    (Chars("JST") :> "Asia/Tokyo") @@
    (Chars("AEST") :> "Australia/Sydney")

\* Entries of the world-countries table: the countries whose codes are a
\* prefix of an abbreviation (AE, IS, ES), ordinary ones, and two that the
\* timezone data knows no zone for (XK, BV), one whose zone the timezone
\* data names by an identifier newer than the host database (UA), and one
\* with the letter K in its code (KR).
countriesData == <<
    [cca2 |-> Chars("TR"), common |-> "Turkey",               flag |-> "flag:TR"],
    [cca2 |-> Chars("US"), common |-> "United States",        flag |-> "flag:US"],
    [cca2 |-> Chars("IN"), common |-> "India",                flag |-> "flag:IN"],
    [cca2 |-> Chars("AE"), common |-> "United Arab Emirates", flag |-> "flag:AE"],
    [cca2 |-> Chars("IS"), common |-> "Iceland",              flag |-> "flag:IS"],
    [cca2 |-> Chars("ES"), common |-> "Spain",                flag |-> "flag:ES"],
    [cca2 |-> Chars("XK"), common |-> "Kosovo",               flag |-> "flag:XK"],
    [cca2 |-> Chars("BV"), common |-> "Bouvet Island",        flag |-> "flag:BV"],
    [cca2 |-> Chars("UA"), common |-> "Ukraine",              flag |-> "flag:UA"],
    [cca2 |-> Chars("KR"), common |-> "South Korea",          flag |-> "flag:KR"] >>

\* moment-timezone's country data: the zones of a country, sorted by name
momentCountries ==
    (Chars("TR") :> <<"Europe/Istanbul">>) @@
    (Chars("US") :> <<"America/Adak", "America/Anchorage", "America/Los_Angeles",
                      "America/New_York">>) @@
    (Chars("IN") :> <<"Asia/Kolkata">>) @@
    (Chars("AE") :> <<"Asia/Dubai">>) @@
    (Chars("IS") :> <<"Atlantic/Reykjavik">>) @@
    (Chars("ES") :> <<"Africa/Ceuta", "Atlantic/Canary", "Europe/Madrid">>) @@
    (Chars("UA") :> <<"Europe/Kyiv">>) @@
    (Chars("KR") :> <<"Asia/Seoul">>)

\* moment.tz.zonesForCountry(cca2): null for a country the data does not hold
zonesForCountry(cca2) ==
    IF toUpperCase(cca2) \in DOMAIN momentCountries
    THEN [kind |-> "list", zones |-> momentCountries[toUpperCase(cca2)]]
    ELSE Null

\* Mutant of findCountry: the first country stands in when none matches
findCountry_Default(upperCode) ==
    LET hits == {i \in DOMAIN countries :
                    toUpperCase(countries[i].cca2) = upperCode}
        i == IF hits = {} THEN 1 ELSE CHOOSE k \in hits : \A m \in hits : k <= m
    IN  [kind |-> "country", cca2 |-> countries[i].cca2,
         common |-> countries[i].common, flag |-> countries[i].flag]

\* countriesData.find((c) => c.cca2.toUpperCase() === upperCode)
findCountry(upperCode) ==
    LET hits == {i \in DOMAIN countries :
                    toUpperCase(countries[i].cca2) = upperCode}
    IN  IF hits = {} THEN Null
        ELSE LET i == CHOOSE k \in hits : \A m \in hits : k <= m
             IN  [kind |-> "country", cca2 |-> countries[i].cca2,
                  common |-> countries[i].common, flag |-> countries[i].flag]

-----------------------------------------------------------------------------
(* Code resolver                                                           *)

\* Mutant of getPrimaryTimezoneForCountry: the last zone of the list
getPrimaryTimezoneForCountry_Last(cca2) ==
    LET tzList == zonesForCountry(cca2)
    IN  IF tzList # Null /\ Len(tzList.zones) > 0
        THEN [kind |-> "zone", timezone |-> tzList.zones[Len(tzList.zones)]]
        ELSE Null

getPrimaryTimezoneForCountry(cca2) ==
    LET tzList == zonesForCountry(cca2)
    IN  IF tzList # Null /\ Len(tzList.zones) > 0
        THEN [kind |-> "zone", timezone |-> tzList.zones[1]]
        ELSE Null

\* getTimeZoneFromCode of the first parser variant; it reads the object
\* SPECIAL_TZ_MAP as it is when the call is made
getTimeZoneFromCodeV1(c) ==
    LET upperCode == toUpperCase(c)
    IN  IF upperCode \in DOMAIN tzMap
        THEN [kind |-> "ok", timezone |-> tzMap[upperCode],
              displayName |-> upperCode, flag |-> ""]
        ELSE IF Len(upperCode) = 2
        THEN LET matchedCountry == findCountry(upperCode)
             IN  IF matchedCountry # Null
                 THEN LET primaryTz == getPrimaryTimezoneForCountry(matchedCountry.cca2)
                      IN  IF primaryTz # Null
                          THEN [kind |-> "ok", timezone |-> primaryTz.timezone,
                                displayName |-> Chars(matchedCountry.common),
                                flag |-> matchedCountry.flag]
                          ELSE Null
                 ELSE Null
        ELSE Null

\* Mutant of getTimeZoneFromCodeV2: the country table is searched by the
\* first two characters, whatever the length of the code
getTimeZoneFromCodeV2_NoLengthCheck(c) ==
    LET upperCode == toUpperCase(c)
        matchedCountry == findCountry(slice(upperCode, 0, 2))
        tzList == zonesForCountry(matchedCountry.cca2)
    IN  IF upperCode \in DOMAIN getSpecialTzMap
        THEN [kind |-> "ok", timezone |-> getSpecialTzMap[upperCode],
              displayName |-> upperCode, flag |-> "GlobeAltIcon"]
        ELSE IF matchedCountry = Null THEN Null
        ELSE IF tzList = Null THEN Thrown
        ELSE [kind |-> "ok", timezone |-> tzList.zones[1],
              displayName |-> Chars(matchedCountry.common),
              flag |-> matchedCountry.flag]

\* getTimeZoneFromCode of the latest parser variant: indexing [0] into the
\* null that zonesForCountry returns raises a TypeError
getTimeZoneFromCodeV2(c) ==
    LET upperCode == toUpperCase(c)
        specialMap == getSpecialTzMap
    IN  IF upperCode \in DOMAIN specialMap
        THEN [kind |-> "ok", timezone |-> specialMap[upperCode],
              displayName |-> upperCode, flag |-> "GlobeAltIcon"]
        ELSE IF Len(upperCode) = 2
        THEN LET matchedCountry == findCountry(upperCode)
             IN  IF matchedCountry # Null
                 THEN LET tzList == zonesForCountry(matchedCountry.cca2)
                      IN  IF tzList = Null THEN Thrown
                          ELSE IF Len(tzList.zones) > 0
                          THEN [kind |-> "ok", timezone |-> tzList.zones[1],
                                displayName |-> Chars(matchedCountry.common),
                                flag |-> matchedCountry.flag]
                          ELSE Null
                 ELSE Null
        ELSE Null

-----------------------------------------------------------------------------
(* Input parser                                                            *)

isValidTimeString(timeStr) ==
    \/ toLowerCase(timeStr) = Chars("now")
    \/ Len(timeStr) = 4 /\ ~ isNaNNumber(timeStr)

\* Mutant of codeLensV1: only 2-letter codes are tried
codeLensV1_TwoOnly == <<2>>

\* for (const codeLen of [4, 3, 2])
codeLensV1 == <<4, 3, 2>>

RECURSIVE parseLoopV1(_, _)
parseLoopV1(cleaned, lens) ==
    IF lens = <<>> THEN Null
    ELSE LET codeLen == Head(lens)
             codePart == toUpperCase(slice(cleaned, 0, codeLen))
             timePart == toLowerCase(sliceFrom(cleaned, codeLen))
             zoneInfo == getTimeZoneFromCodeV1(codePart)
         IN  IF Len(cleaned) < codeLen THEN parseLoopV1(cleaned, Tail(lens))
             ELSE IF zoneInfo = Null THEN parseLoopV1(cleaned, Tail(lens))
             ELSE IF ~ isValidTimeString(timePart) THEN parseLoopV1(cleaned, Tail(lens))
             ELSE [kind |-> "ok", codePart |-> codePart, timePart |-> timePart,
                   zoneInfo |-> zoneInfo]

parseUserInputV1(in) == parseLoopV1(trim(in), codeLensV1)

\* Mutant of isValidTimeV2: a time part that ends in "now" passes
isValidTimeV2_EndsInNow(timePart) ==
    \/ Len(timePart) >= 3 /\ sliceFrom(timePart, Len(timePart) - 3) = Chars("now")
    \/ /\ Len(timePart) = 4
       /\ allDigits(timePart)
       /\ leq(parseInt(slice(timePart, 0, 2)), 23)
       /\ leq(parseInt(slice(timePart, 2, 4)), 59)

\* the inline time check of the latest parseUserInput
isValidTimeV2(timePart) ==
    \/ timePart = Chars("now")
    \/ /\ Len(timePart) = 4
       /\ allDigits(timePart)
       /\ leq(parseInt(slice(timePart, 0, 2)), 23)
       /\ leq(parseInt(slice(timePart, 2, 4)), 59)

\* for (const codeLen of [3, 2])
codeLensV2 == <<3, 2>>

RECURSIVE parseLoopV2(_, _)
parseLoopV2(cleaned, lens) ==
    IF lens = <<>> THEN Null
    ELSE LET codeLen == Head(lens)
             codePart == slice(cleaned, 0, codeLen)
             timePart == toLowerCase(sliceFrom(cleaned, codeLen))
             zoneInfo == getTimeZoneFromCodeV2(codePart)
         IN  IF Len(cleaned) < codeLen + 3 THEN parseLoopV2(cleaned, Tail(lens))
             ELSE IF ~ isValidTimeV2(timePart) THEN parseLoopV2(cleaned, Tail(lens))
             ELSE IF zoneInfo = Thrown THEN Thrown
             ELSE IF zoneInfo # Null
             THEN [kind |-> "ok", codePart |-> codePart, timePart |-> timePart,
                   zoneInfo |-> zoneInfo]
             ELSE parseLoopV2(cleaned, Tail(lens))

\* Mutant of parseUserInputV2: the input is not upper-cased
parseUserInputV2_AsTyped(in) == parseLoopV2(trim(in), codeLensV2)

parseUserInputV2(in) == parseLoopV2(toUpperCase(trim(in)), codeLensV2)

-----------------------------------------------------------------------------
(* Time construction (luxon)                                               *)

\* The IANA identifiers the host timezone database knows.  moment-timezone
\* carries its own zone names, so a name of its data can be missing here
\* (Europe/Kyiv, on a host whose database predates the renaming of
\* Europe/Kiev).
HostZones == {"UTC", "Europe/Paris", "Asia/Kolkata", "America/Los_Angeles",
              "America/New_York", "Europe/London", "Asia/Tokyo",
              "Australia/Sydney", "Europe/Istanbul", "America/Adak",
              "America/Anchorage", "Asia/Dubai", "Atlantic/Reykjavik",
              "Africa/Ceuta", "Atlantic/Canary", "Europe/Madrid", "Asia/Seoul"}

\* DateTime.fromObject({hour, minute}, {zone}): an unknown zone gives an
\* invalid DateTime; a NaN unit raises; the time is valid for an hour 0..23
\* and a minute 0..59, and also for 24:00, which is the next midnight.
fromObject(h, m, z) ==
    IF z \notin HostZones THEN [kind |-> "invalid"]
    ELSE IF h.nan \/ m.nan THEN Thrown
    ELSE IF /\ (h.value \in 0..23 \/ (h.value = 24 /\ m.value = 0))
            /\ m.value \in 0..59
    THEN [kind |-> "valid", hour |-> h.value % 24, minute |-> m.value]
    ELSE [kind |-> "invalid"]

-----------------------------------------------------------------------------
(* The host timezone database and luxon's DateTime                         *)

\* An instant is a number of seconds since 2025-01-01T00:00:00Z.
Minute == 60
HourSecs == 3600
Day == 86400

\* the instant of h:m:s UTC on the d-th day after 1 January 2025
At(d, h, m, s) == d * Day + h * HourSecs + m * Minute + s

\* The rules of 2025.  Between `from' and `to' the zone is `inside' seconds
\* ahead of UTC, and `outside' seconds ahead at any other instant.
Fixed(off) == [from |-> 0, to |-> 0, inside |-> off, outside |-> off]
\* United States: 9 March 02:00 standard time to 2 November 02:00 daylight time
UnitedStates(std) ==
    [from |-> At(67, 2, 0, 0) - std, to |-> At(305, 1, 0, 0) - std,
     inside |-> std + HourSecs, outside |-> std]
\* European Union: 30 March 01:00 UTC to 26 October 01:00 UTC
EuropeanUnion(std) ==
    [from |-> At(88, 1, 0, 0), to |-> At(298, 1, 0, 0),
     inside |-> std + HourSecs, outside |-> std]
\* New South Wales: standard time from 6 April 03:00 daylight time to
\* 5 October 02:00 standard time
NewSouthWales(std) ==
    [from |-> At(95, 2, 0, 0) - std, to |-> At(277, 2, 0, 0) - std,
     inside |-> std, outside |-> std + HourSecs]

ZoneRules ==
    [z \in HostZones |->
        CASE z = "UTC"                 -> Fixed(0)
          [] z = "Europe/Paris"        -> EuropeanUnion(HourSecs)
          [] z = "Asia/Kolkata"        -> Fixed(5 * HourSecs + 30 * Minute)
          [] z = "America/Los_Angeles" -> UnitedStates(-8 * HourSecs)
          [] z = "America/New_York"    -> UnitedStates(-5 * HourSecs)
          [] z = "Europe/London"       -> EuropeanUnion(0)
          [] z = "Asia/Tokyo"          -> Fixed(9 * HourSecs)
          [] z = "Australia/Sydney"    -> NewSouthWales(10 * HourSecs)
          [] z = "Europe/Istanbul"     -> Fixed(3 * HourSecs)
          [] z = "America/Adak"        -> UnitedStates(-10 * HourSecs)
          [] z = "America/Anchorage"   -> UnitedStates(-9 * HourSecs)
          [] z = "Asia/Dubai"          -> Fixed(4 * HourSecs)
          [] z = "Atlantic/Reykjavik"  -> Fixed(0)
          [] z = "Africa/Ceuta"        -> EuropeanUnion(HourSecs)
          [] z = "Atlantic/Canary"     -> EuropeanUnion(0)
          [] z = "Europe/Madrid"       -> EuropeanUnion(HourSecs)
          [] z = "Asia/Seoul"          -> Fixed(9 * HourSecs)]

\* zone.offset(ts): the seconds the zone is ahead of UTC at an instant
offset(z, ts) ==
    LET r == ZoneRules[z]
    IN  IF r.from <= ts /\ ts < r.to THEN r.inside ELSE r.outside

Invalid == [kind |-> "invalid"]
\* A valid DateTime: an instant and the zone it is expressed in
DateTime(ts, z) == [kind |-> "valid", ts |-> ts, zone |-> z]

\* the calendar reading of a valid DateTime: seconds since 1 January 2025
\* 00:00 on the wall clock of its zone
localTS(dt) == dt.ts + offset(dt.zone, dt.ts)
dayOf(dt) == localTS(dt) \div Day
hourOf(dt) == (localTS(dt) % Day) \div HourSecs
minuteOf(dt) == (localTS(dt) % HourSecs) \div Minute
secondOf(dt) == localTS(dt) % Minute

\* Mutant of setZone: the wall-clock reading is kept, not the instant
setZone_KeepLocalTime(dt, z) ==
    IF dt.kind = "valid" /\ dt.zone = z THEN dt
    ELSE IF z \notin HostZones THEN Invalid
    ELSE IF dt.kind = "invalid" THEN Invalid
    ELSE DateTime(dt.ts + offset(dt.zone, dt.ts) - offset(z, dt.ts), z)

\* dt.setZone(z): the same instant in another zone; an identifier the host
\* does not know gives an invalid DateTime and raises nothing
setZone(dt, z) ==
    IF dt.kind = "valid" /\ dt.zone = z THEN dt
    ELSE IF z \notin HostZones THEN Invalid
    ELSE IF dt.kind = "invalid" THEN Invalid
    ELSE DateTime(dt.ts, z)

\* fixOffset once the offset o3 at the second guess is known
fixOffsetThird(local, z, utcGuess2, o2, o3) ==
    IF o2 = o3 THEN DateTime(utcGuess2, z)
    ELSE DateTime(local - Min(o2, o3), z)

\* fixOffset once the offset o2 at the first guess is known
fixOffsetSecond(local, o, z, o2) ==
    LET utcGuess == local - o
        utcGuess2 == utcGuess - (o2 - o)
    IN  IF o = o2 THEN DateTime(utcGuess, z)
        ELSE fixOffsetThird(local, z, utcGuess2, o2, offset(z, utcGuess2))

\* Mutant of fixOffset: the first guess of the UTC time is kept
fixOffset_FirstGuess(local, o, z) == DateTime(local - o, z)

\* luxon's fixOffset: the instant of a wall-clock reading of zone z, from a
\* first guess o of the offset.  A reading inside the hour a zone skips
\* is moved forward by that hour.
fixOffset(local, o, z) == fixOffsetSecond(local, o, z, offset(z, local - o))

\* DateTime.fromObject({hour, minute}, {zone}) at the instant `now': the
\* date is today's date in the zone, the second is 0
fromObjectAt(h, m, z, now) ==
    LET checked == fromObject(h, m, z)
    IN  IF checked = Thrown \/ checked.kind = "invalid" THEN checked
        ELSE LET today == DateTime(now, z)
                 local == dayOf(today) * Day + h.value * HourSecs + m.value * Minute
             IN  fixOffset(local, offset(z, now), z)

\* two decimal digits, and a number without padding
pad2(n) == <<DigitChars[(n \div 10) + 1], DigitChars[(n % 10) + 1]>>
unpadded(n) == IF n < 10 THEN <<DigitChars[n + 1]>> ELSE pad2(n)
\* the hour of the 12-hour clock, and its half of the day
hour12(h) == IF h % 12 = 0 THEN 12 ELSE h % 12
meridiem(h) == IF h < 12 THEN Chars("AM") ELSE Chars("PM")

INVALID == Chars("Invalid DateTime")

\* the text of a wall-clock reading, for the formats the pages use
formatReading(h, m, sec, fmt) ==
    CASE fmt = "HH:mm"    -> pad2(h) \o <<":">> \o pad2(m)
      [] fmt = "HH:mm:ss" -> pad2(h) \o <<":">> \o pad2(m) \o <<":">> \o pad2(sec)
      [] fmt = "h:mm a"   -> unpadded(hour12(h)) \o <<":">> \o pad2(m) \o <<" ">>
                               \o meridiem(h)
      [] fmt = "h.mm a"   -> unpadded(hour12(h)) \o <<".">> \o pad2(m) \o <<" ">>
                               \o meridiem(h)

\* the text of the reading that is `local' seconds after 1 January 2025 00:00
formatLocal(local, fmt) ==
    formatReading((local % Day) \div HourSecs, (local % HourSecs) \div Minute,
                  local % Minute, fmt)

\* dt.toFormat(fmt)
toFormat(dt, fmt) ==
    IF dt.kind = "invalid" THEN INVALID ELSE formatLocal(localTS(dt), fmt)

-----------------------------------------------------------------------------
(* The page render, per variant                                            *)

Variants == {"A", "B", "C", "D", "E"}
ParserVariants == {"D", "E"}

Warning(kind, quoted, p) ==
    [screen |-> kind, echo |-> quoted, parsed |-> p, zone |-> "",
     hour |-> NaN, minute |-> NaN, shown |-> Null]

Crash(p) == Warning("Exception", <<>>, p)

Display(p, z, h, m, time) ==
    [screen |-> "Display", echo |-> <<>>, parsed |-> p, zone |-> z,
     hour |-> h, minute |-> m, shown |-> time]

\* the current instant, expressed in the base zone
LiveTime == [kind |-> "now"]
\* new Date().getHours() and getMinutes(), read as a time of the base zone
HostClockTime == [kind |-> "hostnow"]
FixedTime(built) ==
    [kind |-> "time", hour |-> built.hour, minute |-> built.minute]

\* getPrimaryTimezone of the country-only variants: "UTC" when no zone list
getPrimaryTimezone(cca2) ==
    LET tzList == zonesForCountry(cca2)
    IN  IF tzList # Null /\ Len(tzList.zones) > 0 THEN tzList.zones[1] ELSE "UTC"

\* the explicit-time branch shared by the variants that build the base time
\* with DateTime.fromObject and test isValid
buildExplicit(p, z, timePart, rangeGuard) ==
    LET h == parseInt(slice(timePart, 0, 2))
        m == parseInt(slice(timePart, 2, 4))
        built == fromObject(h, m, z)
    IN  IF built = Thrown THEN Crash(p)
        ELSE IF built.kind = "invalid" \/ (rangeGuard /\ (gt(h, 23) \/ gt(m, 59)))
        THEN Warning("InvalidTime", <<>>, p)
        ELSE Display(p, z, h, m, FixedTime(built))

\* variants B and C
TimezonePageCountry(in) ==
    IF Len(in) < 2 THEN Warning("TooShort", <<>>, Null)
    ELSE LET countryCode == toUpperCase(slice(in, 0, 2))
             remainingPart == toLowerCase(sliceFrom(in, 2))
             matchedCountry == findCountry(countryCode)
         IN  IF matchedCountry = Null THEN Warning("NotFound", countryCode, Null)
             ELSE LET baseZone == getPrimaryTimezone(matchedCountry.cca2)
                  IN  IF remainingPart = Chars("now")
                      THEN Display(Null, baseZone, NaN, NaN, LiveTime)
                      ELSE IF Len(remainingPart) # 4 \/ isNaNNumber(remainingPart)
                      THEN Warning("BadTimeFormat", <<>>, Null)
                      ELSE buildExplicit(Null, baseZone, remainingPart, FALSE)

\* variant A: the time format is tested before the zone is looked up, and
\* "now" takes the host's local hour and minute as a time in the base zone,
\* which DateTime.fromObject rejects only for a zone the host does not know
TimezonePageA(in) ==
    IF Len(in) < 2 THEN Warning("TooShort", <<>>, Null)
    ELSE LET countryCode == toUpperCase(slice(in, 0, 2))
             remainingPart == toLowerCase(sliceFrom(in, 2))
             matchedCountry == findCountry(countryCode)
         IN  IF matchedCountry = Null THEN Warning("NotFound", countryCode, Null)
             ELSE IF /\ remainingPart # Chars("now")
                     /\ (Len(remainingPart) # 4 \/ isNaNNumber(remainingPart))
             THEN Warning("BadTimeFormat", <<>>, Null)
             ELSE LET baseZone == getPrimaryTimezone(matchedCountry.cca2)
                  IN  IF remainingPart = Chars("now")
                      THEN IF baseZone \notin HostZones
                           THEN Warning("InvalidTime", <<>>, Null)
                           ELSE Display(Null, baseZone, NaN, NaN, HostClockTime)
                      ELSE buildExplicit(Null, baseZone, remainingPart, FALSE)

TimezonePageB(in) == TimezonePageCountry(in)
TimezonePageC(in) == TimezonePageCountry(in)

TimezonePageD(in) ==
    IF Len(in) < 2 THEN Warning("TooShort", <<>>, Null)
    ELSE LET p == parseUserInputV1(in)
         IN  IF p = Null THEN Warning("Unrecognized", in, p)
             ELSE IF p.timePart = Chars("now")
             THEN Display(p, p.zoneInfo.timezone, NaN, NaN, LiveTime)
             ELSE buildExplicit(p, p.zoneInfo.timezone, p.timePart, FALSE)

TimezonePageE(in) ==
    IF Len(in) < 3 THEN Warning("TooShort", <<>>, Null)
    ELSE LET p == parseUserInputV2(in)
         IN  IF p = Thrown THEN Crash(p)
             ELSE IF p = Null THEN Warning("Unrecognized", in, p)
             ELSE IF p.timePart = Chars("now")
             THEN Display(p, p.zoneInfo.timezone, NaN, NaN, LiveTime)
             ELSE buildExplicit(p, p.zoneInfo.timezone, p.timePart, TRUE)

-----------------------------------------------------------------------------
(* The times a page shows                                                  *)

\* DateTime.now(): the instant of the wall clock, in the host's own zone
DateTimeNow(clk, host) == DateTime(clk, host)

\* whether the page shows the current time
isNow(page) == page.shown \in {LiveTime, HostClockTime}

\* The base time of a page that displays: variant A's "now" is the host's
\* local hour and minute taken as a time of the base zone, the latest
\* variant's is its currentTime state, the others' is the wall clock at the
\* render; an explicit time is today's hour:minute in the base zone.
baseTimeOf(v, page, clk, host, cur) ==
    IF page.screen # "Display" THEN Null
    ELSE IF page.shown = HostClockTime
    THEN fromObjectAt(Num(hourOf(DateTimeNow(clk, host))), Num(minuteOf(DateTimeNow(clk, host))),
                      page.zone, clk)
    ELSE IF page.shown = LiveTime
    THEN IF v = "E" THEN setZone(cur, page.zone)
         ELSE setZone(DateTimeNow(clk, host), page.zone)
    ELSE fromObjectAt(page.hour, page.minute, page.zone, clk)

\* the format of the base time, and of a comparison row
baseFormat(v, page) ==
    IF v \in {"A", "B"} THEN "h.mm a"
    ELSE IF v = "E" /\ isNow(page) THEN "HH:mm:ss"
    ELSE "HH:mm"
rowFormat(v, page) ==
    IF v \in {"A", "B"} THEN "h:mm a"
    ELSE IF v = "E" /\ isNow(page) THEN "HH:mm:ss"
    ELSE "HH:mm"

\* the DateTime the rows of the latest variant convert: currentTime on a
\* "now" page, the base time otherwise
refTime(v, page, base, cur) == IF v = "E" /\ isNow(page) THEN cur ELSE base

\* getCountryTime(timezone): try the conversion, and on an exception format
\* the reference time in UTC
getCountryTime(ref, tz, fmt, v) ==
    LET converted == setZone(ref, tz)
    IN  IF converted = Thrown
        THEN toFormat(setZone(ref, "UTC"), IF v = "E" THEN "HH:mm" ELSE fmt)
        ELSE toFormat(converted, fmt)

\* the popular timezones a page lists
popularTimezones(v) ==
    IF v = "E"
    THEN <<"Europe/Paris", "Asia/Kolkata", "America/Los_Angeles", "UTC",
           "Europe/Istanbul", "America/New_York", "Asia/Tokyo">>
    ELSE <<"Europe/Paris", "Asia/Kolkata", "America/Los_Angeles", "UTC",
           "Europe/Istanbul">>

\* a row of the popular list: the latest variant formats it with
\* getCountryTime, the others convert the base time in place
popularTime(v, page, base, cur, tz) ==
    IF v = "E" THEN getCountryTime(refTime(v, page, base, cur), tz, rowFormat(v, page), v)
    ELSE toFormat(setZone(base, tz), rowFormat(v, page))

\* the entry the country selector hands over for a country of the table
selectorCountry(i) ==
    [code |-> toLowerCase(countries[i].cca2),
     timezone |-> getPrimaryTimezone(countries[i].cca2)]

\* Mutant of addCountry: the entry is appended whatever the list holds
addCountry_Always(prev, c) == Append(prev, c)

\* onSelectCountry: the entry is appended unless its code is listed
addCountry(prev, c) ==
    IF \E k \in DOMAIN prev : prev[k].code = c.code THEN prev ELSE Append(prev, c)

\* the codes of the popular timezones of the latest variant, and the entry
\* handleAddPopular makes of the k-th
popularCodes ==
    <<Chars("CET"), Chars("IST"), Chars("PST"), Chars("UTC"), Chars("TR"),
      Chars("EST"), Chars("JST")>>
popularEntry(k) == [code |-> popularCodes[k], timezone |-> popularTimezones("E")[k]]

\* handleAddPopular: the entry is appended unless its timezone is listed
addPopular(prev, tz) ==
    IF \E k \in DOMAIN prev : prev[k].timezone = tz.timezone THEN prev
    ELSE Append(prev, tz)

\* handleRemoveCountry: prev.filter(c => c.code !== code)
removeCountry(prev, c) == SelectSeq(prev, LAMBDA x : x.code # c)

-----------------------------------------------------------------------------
(* Inputs                                                                  *)

\* most leading and trailing blanks put around a route token
MaxPad == 1
\* longest code handed directly to getTimeZoneFromCode
MaxCodeLen == 4

CodeSamples == {Chars(s) : s \in
    {"", "T", "TR", "tr", "tR", "US", "IN", "AE", "ae", "IS", "ES", "XK", "bv",
     "ZZ", "CE", "CET", "cet", "Cet", "IST", "PST", "UTC", "utc", "EST", "GMT",
     "JST", "AES", "AEST", "aest", "ZZZ", "ZZZZ", "TRX"}}

DigitTimes == {<<a, b, c, d>> : a \in {"0", "1", "2", "9"},
                                b \in {"0", "2", "3", "4", "9"},
                                c \in {"0", "5", "6", "9"},
                                d \in {"0", "9"}}

Pads == {[i \in 1..n |-> " "] : n \in 0..MaxPad}

PaddedSamples == {c \o t : c \in {Chars(s) : s \in {"", "TR", "CET", "AEST", "ZZ"}},
                           t \in {Chars(s) : s \in {"", "now", "1330", "2400", "123"}}}

OddTimes == {Chars(s) : s \in
    {"", "now", "NOW", "Now", "tnow", "no", "nows", "1e10", "0x10", "1.50",
     "+100", "-100", " 123", "12:3", ".500", "123", "12345", "1330", "2400"}}

CoreCodes == {Chars(s) : s \in
    {"TR", "tr", "US", "AE", "XK", "ZZ", "CET", "IST", "EST", "AEST", "ZZZZ"}}

\* route tokens for South Korea, in ASCII and with the Kelvin sign for K
KelvinSamples ==
    {k \o r \o t : k \in {<<"K">>, <<"k">>, <<KelvinSign>>},
                   r \in {<<"R">>, <<"r">>},
                   t \in {Chars(s) : s \in {"now", "NOW", "1330"}}}

Inputs ==
    {c \o t : c \in CodeSamples, t \in OddTimes}
    \cup {c \o t : c \in CoreCodes, t \in DigitTimes}
    \cup {l \o x \o r : l \in Pads, r \in Pads, x \in PaddedSamples}
    \cup KelvinSamples

\* The instants a run starts at: a winter day; two seconds before
\* America/Los_Angeles skips 02:00-03:00 on 9 March; two seconds before the
\* European Union skips an hour on 30 March; two seconds before midnight UTC
\* on a summer day
Winter == At(14, 10, 29, 58)
Summer == At(181, 23, 59, 58)
ClockSamples == {Winter, At(67, 9, 59, 58), At(88, 0, 59, 58), Summer}
\* most seconds the wall clock advances in a run
MaxTicks == 3
Instants == UNION {s..(s + MaxTicks) : s \in ClockSamples}
HostSamples == {"UTC", "Europe/Istanbul"}

\* most entries of a comparison list
MaxSelected == 2
\* the countries clicked in the selector: TR, US and UA
SelectorSamples == {1, 2, 9}

TimeInputs == {Chars(s) : s \in
    {"TRnow", "TR1330", "TR2460", "USnow", "US0230", "ES0230", "PSTnow",
     "PST0230", "PST1330", "CET0230", "UAnow", "UA1330", "ZZ1330"}}

\* the clicks on the comparison list: the countries TR, US, XK and BV in
\* the selector, the rows UTC and Istanbul of the popular list
ListSamples == {1, 2, 7, 8}
PopularSamples == {4, 5}
ListInputs == {Chars(s) : s \in {"TR1330", "TRnow", "US0230"}}

\* the route tokens and the instants of the runs checked for progress
LiveInputs == {Chars(s) : s \in {"TRnow", "TR1330", "PSTnow"}}
LiveInstants == Winter..(Winter + MaxTicks)

CodeChars == Chars("AESTaestZ ")

RECURSIVE StringsUpTo(_)
StringsUpTo(n) ==
    IF n = 0 THEN {<<>>}
    ELSE LET shorter == StringsUpTo(n - 1)
         IN  shorter \cup {Append(s, c) : s \in shorter, c \in Range(CodeChars)}

\* most direct calls made in a row, and the arguments they are made with:
\* an abbreviation, a country, a country the timezone data has no zone
\* for, and a code of neither table
MaxCalls == 3
CallCodes == {Chars(s) : s \in {"cet", "TR", "XK", "ZZ"}}
CallInputs == {Chars(s) : s \in {"cet1330", "TRnow", "XKnow", "zz"}}

Codes == StringsUpTo(MaxCodeLen) \cup CodeSamples \cup {Chars("AESTX"), Chars("TRNOW")}

-----------------------------------------------------------------------------
(* State machine                                                           *)

Pending == [kind |-> "pending"]

\* The tables as the module creates them, before any call
Loaded ==
    /\ tzMap = SPECIAL_TZ_MAP
    /\ countries = countriesData
    /\ calls = <<>>

\* router.push was not called
NoRoute == <<>>

\* no Home form is open; the fields hold the defaults of useState
NoHome ==
    /\ homeForm = "none"
    /\ search = <<>>
    /\ selectedCountry = Null
    /\ timeMode = "custom"
    /\ timeValue = <<>>
    /\ error = ""
    /\ route = NoRoute

\* nothing is displayed, no timer runs
NoTimes ==
    /\ sampled = 0
    /\ currentTime = Null
    /\ baseTime = Null
    /\ formattedLocalTime = <<>>
    /\ selectedCountries = <<>>
    /\ selectedTimes = <<>>
    /\ popularTimes = <<>>
    /\ intervals = 0
    /\ cancelled = FALSE

\* The body of a render after the route token is dealt with: the base time
\* and every row are computed anew from the state cur of currentTime and
\* the comparison list sel.
Paint(page, cur, sel) ==
    /\ baseTime' = baseTimeOf(variant, page, clock, hostZone, cur)
    /\ formattedLocalTime' =
          IF baseTime' = Null THEN <<>>
          ELSE toFormat(baseTime', baseFormat(variant, page))
    /\ selectedTimes' =
          IF baseTime' = Null THEN <<>>
          ELSE [k \in DOMAIN sel |->
                   getCountryTime(refTime(variant, page, baseTime', cur),
                                  sel[k].timezone, rowFormat(variant, page), variant)]
    /\ popularTimes' =
          IF baseTime' = Null THEN <<>>
          ELSE [k \in DOMAIN popularTimezones(variant) |->
                   popularTime(variant, page, baseTime', cur,
                               popularTimezones(variant)[k])]
    /\ sampled' =
          IF page.screen = "Display" /\ isNow(page)
          THEN (IF variant = "E" THEN cur.ts ELSE clock)
          ELSE 0

\* The page on the screen.  A later render of the mounted page goes through
\* the same route token again and arrives at the same values.
CurrentPage ==
    [screen |-> screen, echo |-> echo, parsed |-> parsed, zone |-> zone,
     hour |-> hour, minute |-> minute, shown |-> shown]

\* whether the render of the latest variant gets as far as its useEffect
\* with the time part "now", so that the effect starts the timer
startsTimer(v, page) == v = "E" /\ page.screen = "Display" /\ page.shown = LiveTime

Init ==
    /\ variant \in Variants
    /\ input = <<>>
    /\ screen = "Unmounted"
    /\ echo = <<>>
    /\ parsed = Null
    /\ zone = ""
    /\ hour = NaN
    /\ minute = NaN
    /\ shown = Null
    /\ code = <<>>
    /\ zoneInfoV1 = Pending
    /\ zoneInfoV2 = Pending
    /\ clock = Winter
    /\ hostZone = "UTC"
    /\ NoTimes
    /\ Loaded
    /\ NoHome
    /\ expandedGroups = {}

Render(in, page) ==
    /\ screen = "Unmounted"
    /\ input' = in
    /\ screen' = page.screen
    /\ echo' = page.echo
    /\ parsed' = page.parsed
    /\ zone' = page.zone
    /\ hour' = page.hour
    /\ minute' = page.minute
    /\ shown' = page.shown
    /\ currentTime' = IF variant = "E" THEN DateTimeNow(clock, hostZone) ELSE currentTime
    /\ selectedCountries' = <<>>
    /\ Paint(page, currentTime', <<>>)
    /\ intervals' = IF startsTimer(variant, page) THEN intervals + 1 ELSE intervals
    /\ cancelled' = FALSE
    /\ UNCHANGED <<moduleVars, homeVars, expandedGroups, variant, callVars, hostVars>>

\* A page load: the route token arrives and the page of the deployed variant
\* renders once.
NavigateA(in) == variant = "A" /\ Render(in, TimezonePageA(in))
NavigateB(in) == variant = "B" /\ Render(in, TimezonePageB(in))
NavigateC(in) == variant = "C" /\ Render(in, TimezonePageC(in))
NavigateD(in) == variant = "D" /\ Render(in, TimezonePageD(in))
NavigateE(in) == variant = "E" /\ Render(in, TimezonePageE(in))

\* Mutant of cleanup: the effect returns no cleanup function
cleanup_None(v, page, n) == n

\* the cleanup the effect returned: clearInterval of the timer it started
cleanup(v, page, n) == IF startsTimer(v, page) THEN n - 1 ELSE n

\* The page is left: its effects are cleaned up and its state is dropped,
\* the next route token gets a fresh page.  A change of the route token on
\* a mounted page, the time mode with it, is this step and a page load.
Unmount ==
    /\ screen # "Unmounted"
    /\ input' = <<>>
    /\ screen' = "Unmounted"
    /\ echo' = <<>>
    /\ parsed' = Null
    /\ zone' = ""
    /\ hour' = NaN
    /\ minute' = NaN
    /\ shown' = Null
    /\ baseTime' = Null
    /\ formattedLocalTime' = <<>>
    /\ selectedCountries' = <<>>
    /\ selectedTimes' = <<>>
    /\ popularTimes' = <<>>
    /\ intervals' = cleanup(variant, CurrentPage, intervals)
    /\ cancelled' = (intervals' # intervals)
    /\ sampled' = 0
    /\ expandedGroups' = {}
    /\ UNCHANGED <<moduleVars, homeVars, variant, callVars, hostVars, currentTime>>

Navigate ==
    /\ screen = "Unmounted"
    /\ \E in \in Inputs :
        \/ NavigateA(in)
        \/ NavigateB(in)
        \/ NavigateC(in)
        \/ NavigateD(in)
        \/ NavigateE(in)

Next == Navigate \/ Unmount

Spec == Init /\ [][Next]_vars

\* One second passes on the wall clock.
Tick ==
    /\ clock + 1 \in Instants
    /\ clock' = clock + 1
    /\ UNCHANGED <<moduleVars, homeVars, expandedGroups, pageVars, callVars, hostZone, timeVars>>

\* The timer callback of the latest variant: setCurrentTime(DateTime.now()),
\* and the render the new state causes.
IntervalFire ==
    /\ intervals > 0
    /\ currentTime' = DateTimeNow(clock, hostZone)
    /\ IF screen # "Unmounted"
       THEN Paint(CurrentPage, currentTime', selectedCountries)
       ELSE UNCHANGED <<baseTime, formattedLocalTime, selectedTimes,
                        popularTimes, sampled>>
    /\ UNCHANGED <<moduleVars, homeVars, expandedGroups, pageVars, callVars, hostVars, selectedCountries, intervals,
                   cancelled>>

\* onSelectCountry: a country of the selector is clicked, and the page
\* renders with the new list.
SelectCountry(i) ==
    /\ screen = "Display"
    /\ Len(addCountry(selectedCountries, selectorCountry(i))) <= MaxSelected
    /\ selectedCountries' = addCountry(selectedCountries, selectorCountry(i))
    /\ Paint(CurrentPage, currentTime, selectedCountries')
    /\ UNCHANGED <<moduleVars, homeVars, expandedGroups, pageVars, callVars, hostVars, currentTime, intervals, cancelled>>

Select == \E i \in SelectorSamples : SelectCountry(i)

NavigateTime ==
    /\ screen = "Unmounted"
    /\ \E in \in TimeInputs :
        \/ NavigateA(in)
        \/ NavigateB(in)
        \/ NavigateC(in)
        \/ NavigateD(in)
        \/ NavigateE(in)

InitTime ==
    /\ variant \in Variants
    /\ input = <<>>
    /\ screen = "Unmounted"
    /\ echo = <<>>
    /\ parsed = Null
    /\ zone = ""
    /\ hour = NaN
    /\ minute = NaN
    /\ shown = Null
    /\ code = <<>>
    /\ zoneInfoV1 = Pending
    /\ zoneInfoV2 = Pending
    /\ clock \in ClockSamples
    /\ hostZone \in HostSamples
    /\ NoTimes
    /\ Loaded
    /\ NoHome
    /\ expandedGroups = {}

NextTime == NavigateTime \/ Unmount \/ Tick \/ IntervalFire \/ Select
SpecTime == InitTime /\ [][NextTime]_vars

\* The timer of setInterval keeps calling back while it is active: a
\* callback that would change the page is not postponed for ever.
NavigateLive ==
    /\ screen = "Unmounted"
    /\ \E in \in LiveInputs :
        \/ NavigateA(in)
        \/ NavigateB(in)
        \/ NavigateC(in)
        \/ NavigateD(in)
        \/ NavigateE(in)

InitLive == InitTime /\ clock = Winter
NextLive == NavigateLive \/ Unmount \/ Tick \/ IntervalFire \/ Select
SpecLive == InitLive /\ [][NextLive]_vars /\ WF_vars(IntervalFire)

\* handleAddPopular: a row of the popular list is clicked (latest variant)
AddPopular(k) ==
    /\ variant = "E"
    /\ screen = "Display"
    /\ Len(addPopular(selectedCountries, popularEntry(k))) <= MaxSelected
    /\ selectedCountries' = addPopular(selectedCountries, popularEntry(k))
    /\ Paint(CurrentPage, currentTime, selectedCountries')
    /\ UNCHANGED <<moduleVars, homeVars, expandedGroups, pageVars, callVars, hostVars, currentTime, intervals,
                   cancelled>>

\* handleRemoveCountry: the remove button of the k-th row is clicked
\* (latest variant)
RemoveCountry(k) ==
    /\ variant = "E"
    /\ screen = "Display"
    /\ selectedCountries' = removeCountry(selectedCountries, selectedCountries[k].code)
    /\ Paint(CurrentPage, currentTime, selectedCountries')
    /\ UNCHANGED <<moduleVars, homeVars, expandedGroups, pageVars, callVars, hostVars, currentTime, intervals,
                   cancelled>>

\* handleClearAll: the button is there while the list has an entry
ClearAll ==
    /\ screen = "Display"
    /\ selectedCountries # <<>>
    /\ selectedCountries' = <<>>
    /\ Paint(CurrentPage, currentTime, selectedCountries')
    /\ UNCHANGED <<moduleVars, homeVars, expandedGroups, pageVars, callVars, hostVars, currentTime, intervals,
                   cancelled>>

\* The comparison list of a page with an explicit time, under every click
\* that changes it
NavigateList ==
    /\ screen = "Unmounted"
    /\ \E in \in ListInputs :
        \/ NavigateA(in)
        \/ NavigateB(in)
        \/ NavigateC(in)
        \/ NavigateD(in)
        \/ NavigateE(in)

SelectListed == \E i \in ListSamples : SelectCountry(i)
Popular == \E k \in PopularSamples : AddPopular(k)
Remove == \E k \in DOMAIN selectedCountries : RemoveCountry(k)

InitList == InitTime /\ clock = Winter /\ hostZone = "UTC"
NextList == NavigateList \/ Unmount \/ SelectListed \/ Popular \/ Remove \/ ClearAll
SpecList == InitList /\ [][NextList]_vars

\* A direct call of the resolver, in both parser variants, on a code drawn
\* at the start
Resolve ==
    /\ zoneInfoV1 = Pending
    /\ zoneInfoV1' = getTimeZoneFromCodeV1(code)
    /\ zoneInfoV2' = getTimeZoneFromCodeV2(code)
    /\ UNCHANGED <<moduleVars, homeVars, expandedGroups, code, pageVars, hostVars, timeVars>>

InitResolver ==
    /\ variant = "E"
    /\ input = <<>>
    /\ screen = "Unmounted"
    /\ echo = <<>>
    /\ parsed = Null
    /\ zone = ""
    /\ hour = NaN
    /\ minute = NaN
    /\ shown = Null
    /\ code \in Codes
    /\ zoneInfoV1 = Pending
    /\ zoneInfoV2 = Pending
    /\ clock = Winter
    /\ hostZone = "UTC"
    /\ NoTimes
    /\ Loaded
    /\ NoHome
    /\ expandedGroups = {}

NextResolver == Resolve
SpecResolver == InitResolver /\ [][NextResolver]_vars

\* The two functions of both parser variants, as a caller can name them
Functions == {"getTimeZoneFromCodeV1", "getTimeZoneFromCodeV2",
              "parseUserInputV1", "parseUserInputV2"}

\* what a function returns for an argument, the tables being as they are
returned(fn, arg) ==
    CASE fn = "getTimeZoneFromCodeV1" -> getTimeZoneFromCodeV1(arg)
      [] fn = "getTimeZoneFromCodeV2" -> getTimeZoneFromCodeV2(arg)
      [] fn = "parseUserInputV1" -> parseUserInputV1(arg)
      [] fn = "parseUserInputV2" -> parseUserInputV2(arg)

\* Mutant of assigned: the first resolver remembers the zone it found for a
\* code in the abbreviation table
assigned_Memoised(fn, arg) ==
    LET result == returned(fn, arg)
    IN  IF fn = "getTimeZoneFromCodeV1" /\ result.kind = "ok"
        THEN [tzMap |-> (toUpperCase(arg) :> result.timezone) @@ tzMap,
              countries |-> countries]
        ELSE [tzMap |-> tzMap, countries |-> countries]

\* The tables after a call: the functions look entries up and assign to
\* neither table
assigned(fn, arg) == [tzMap |-> tzMap, countries |-> countries]

\* A direct call of one of the functions; a call that returns null or
\* raises is recorded like any other
Call(fn, arg) ==
    /\ Len(calls) < MaxCalls
    /\ calls' = Append(calls, [fn |-> fn, arg |-> arg, result |-> returned(fn, arg)])
    /\ tzMap' = assigned(fn, arg).tzMap
    /\ countries' = assigned(fn, arg).countries
    /\ UNCHANGED <<pageVars, callVars, hostVars, timeVars, homeVars, expandedGroups>>

CallCode == \E fn \in {"getTimeZoneFromCodeV1", "getTimeZoneFromCodeV2"} :
                \E arg \in CallCodes : Call(fn, arg)
CallParse == \E fn \in {"parseUserInputV1", "parseUserInputV2"} :
                 \E arg \in CallInputs : Call(fn, arg)

InitCalls == InitResolver /\ code = <<>>
NextCalls == CallCode \/ CallParse
SpecCalls == InitCalls /\ [][NextCalls]_vars

-----------------------------------------------------------------------------
(* The Home form                                                            *)

\* The Home forms with a country search: the HHMM text field ("T"), the
\* react-time-picker field ("P") and the MUI TimePicker field ("M")
HomeForms == {"T", "P", "M"}

\* allCountries: the code upper-cased, the common name
allCountries ==
    [i \in DOMAIN countries |->
        [code |-> toUpperCase(countries[i].cca2),
         name |-> Chars(countries[i].common)]]

\* String.prototype.includes
includes(s, sub) ==
    \E i \in 0..(Len(s) - Len(sub)) : SubSeq(s, i + 1, i + Len(sub)) = sub

\* filteredCountries: every country while the box is empty, else those
\* whose code or name contains the lower-cased text
filteredCountries(text) ==
    IF text = <<>> THEN allCountries
    ELSE SelectSeq(allCountries, LAMBDA c :
            \/ includes(toLowerCase(c.code), toLowerCase(text))
            \/ includes(toLowerCase(c.name), toLowerCase(text)))

\* Mutant of onSearchChange: an edit of the text keeps the selection
onSearchChange_KeepSelection(sel, text) == sel

\* the search box's onChange: setSearch(e.target.value) and
\* setSelectedCountry(null); the selection it leaves
onSearchChange(sel, text) == Null

\* the time regex /^(0\d|1\d|2[0-3])([0-5]\d)$/ of the text field
timeRegex(t) ==
    /\ Len(t) = 4
    /\ isDigit(t[1]) /\ isDigit(t[2]) /\ isDigit(t[3]) /\ isDigit(t[4])
    /\ \/ t[1] \in {"0", "1"}
       \/ t[1] = "2" /\ digitValue(t[2]) <= 3
    /\ digitValue(t[3]) <= 5

\* String.prototype.replace with a string pattern: the first occurrence
replaceFirst(s, c, by) ==
    IF \E i \in DOMAIN s : s[i] = c
    THEN LET i == CHOOSE k \in DOMAIN s :
                    s[k] = c /\ \A j \in 1..(k - 1) : s[j] # c
         IN  SubSeq(s, 1, i - 1) \o by \o SubSeq(s, i + 1, Len(s))
    ELSE s

\* a value of the MUI TimePicker
PickedTime(h, m) == [kind |-> "datetime", hour |-> h, minute |-> m]

SelectError == "Please select a valid country from the list."
Pushed(r) == [error |-> "", route |-> r]
Refused(msg) == [error |-> msg, route |-> NoRoute]

\* the custom-time branch of handleSubmit, per form
customSubmit(f, prefix, t) ==
    CASE f = "T" ->
            IF ~timeRegex(t)
            THEN Refused("Please enter time in HHMM format (e.g. 1330).")
            ELSE Pushed(prefix \o t)
      [] f = "P" ->
            IF t = <<>>
            THEN Refused("Please pick a valid time or choose 'now'.")
            ELSE IF Len(replaceFirst(t, ":", <<>>)) # 4
                    \/ isNaNNumber(replaceFirst(t, ":", <<>>))
                 THEN Refused("Time must be in HH:mm format.")
                 ELSE Pushed(prefix \o replaceFirst(t, ":", <<>>))
      [] OTHER ->
            IF t = Null
            THEN Refused("Please pick a valid time or choose 'now'.")
            ELSE Pushed(prefix \o pad2(t.hour) \o pad2(t.minute))

\* handleSubmit: the message it sets and the route it pushes
handleSubmit(f, sel, mode, t) ==
    IF sel = Null THEN Refused(SelectError)
    ELSE IF mode = "now"
         THEN Pushed(<<"/">> \o toLowerCase(sel.code) \o Chars("now"))
         ELSE customSubmit(f, <<"/">> \o toLowerCase(sel.code), t)

\* what the user types into the search box
SearchTexts == {Chars(s) : s \in {"", "is", "tr", "Turke", "Turkey", "kos", "zz"}}
\* what the user types into the HHMM text field (maxLength 4)
TextTimes == {Chars(s) : s \in {"", "1330", "0005", "2400", "930"}}
\* what the react-time-picker hands to onChange: "HH:mm", or null
PickerTimes == {Chars(s) : s \in {"", "13:30", "00:05"}}
\* what the MUI TimePicker hands to onChange
MuiTimes == {Null, PickedTime(13, 30), PickedTime(0, 5)}
TimesOf(f) == CASE f = "T" -> TextTimes [] f = "P" -> PickerTimes [] OTHER -> MuiTimes

\* the blank time field of a form
noTime(f) == IF f = "M" THEN Null ELSE <<>>

\* The Home page is opened: a fresh component with the defaults of useState
OpenHome(f) ==
    /\ screen = "Unmounted"
    /\ homeForm = "none" \/ route # NoRoute
    /\ homeForm' = f
    /\ search' = <<>>
    /\ selectedCountry' = Null
    /\ timeMode' = "custom"
    /\ timeValue' = noTime(f)
    /\ error' = ""
    /\ route' = NoRoute
    /\ UNCHANGED <<moduleVars, pageVars, callVars, hostVars, timeVars, expandedGroups>>

HomeOpen == homeForm # "none" /\ route = NoRoute

\* The user edits the search box.
Type(text) ==
    /\ HomeOpen
    /\ text # search
    /\ search' = text
    /\ selectedCountry' = onSearchChange(selectedCountry, text)
    /\ UNCHANGED <<moduleVars, pageVars, callVars, hostVars, timeVars, expandedGroups,
                   homeForm, timeMode, timeValue, error, route>>

\* The user clicks an item of the list: setSelectedCountry(item) and
\* setSearch(item.name).
Click(item) ==
    /\ selectedCountry' = item
    /\ search' = item.name
    /\ UNCHANGED <<moduleVars, pageVars, callVars, hostVars, timeVars, expandedGroups,
                   homeForm, timeMode, timeValue, error, route>>

\* The user picks a time mode.
SetTimeMode(m) ==
    /\ HomeOpen
    /\ m # timeMode
    /\ timeMode' = m
    /\ UNCHANGED <<moduleVars, pageVars, callVars, hostVars, timeVars, expandedGroups,
                   homeForm, search, selectedCountry, timeValue, error, route>>

\* The user fills the time field, shown in the custom mode.
SetTime(t) ==
    /\ HomeOpen
    /\ timeMode = "custom"
    /\ t \in TimesOf(homeForm)
    /\ t # timeValue
    /\ timeValue' = t
    /\ UNCHANGED <<moduleVars, pageVars, callVars, hostVars, timeVars, expandedGroups,
                   homeForm, search, selectedCountry, timeMode, error, route>>

\* The form is submitted.
Submit ==
    /\ HomeOpen
    /\ error' = handleSubmit(homeForm, selectedCountry, timeMode, timeValue).error
    /\ route' = handleSubmit(homeForm, selectedCountry, timeMode, timeValue).route
    /\ UNCHANGED <<moduleVars, pageVars, callVars, hostVars, timeVars, expandedGroups,
                   homeForm, search, selectedCountry, timeMode, timeValue>>

\* the [input] segment of the pushed route
routeInput == sliceFrom(route, 1)

\* The router loads the page of the pushed route.
FollowRoute ==
    /\ route # NoRoute
    /\ \/ NavigateA(routeInput)
       \/ NavigateB(routeInput)
       \/ NavigateC(routeInput)
       \/ NavigateD(routeInput)
       \/ NavigateE(routeInput)

Open == \E f \in HomeForms : OpenHome(f)
Edit == \E text \in SearchTexts : Type(text)
\* the list is rendered while the box is not empty, with the filtered items
Pick ==
    /\ HomeOpen
    /\ search # <<>>
    /\ \E item \in Range(filteredCountries(search)) : Click(item)
Mode == \E m \in {"now", "custom"} : SetTimeMode(m)
Fill == \E t \in TimesOf(homeForm) : SetTime(t)

InitHome == Init
NextHome == Open \/ Edit \/ Pick \/ Mode \/ Fill \/ Submit \/ FollowRoute \/ Unmount
SpecHome == InitHome /\ [][NextHome]_vars

-----------------------------------------------------------------------------
(* The continent groups of CountrySelector                                  *)

\* country.region of world-countries, for the countries of countriesData
regions == <<"Asia", "Americas", "Asia", "Asia", "Europe", "Europe", "Europe",
             "Antarctic", "Europe", "Asia">>

\* the keys of grouped: the continents CountrySelector shows a header for
Continents == {regions[i] : i \in DOMAIN countries}

\* Mutant of toggleGroup: opening a group closes the others
toggleGroup_Accordion(prev, continent) ==
    IF continent \in prev THEN {} ELSE {continent}

\* the updater toggleGroup hands to setExpandedGroups
toggleGroup(prev, continent) ==
    IF continent \in prev THEN prev \ {continent} ELSE prev \cup {continent}

\* The header of a continent is clicked on a page that shows the selector.
ToggleGroup(continent) ==
    /\ screen = "Display"
    /\ expandedGroups' = toggleGroup(expandedGroups, continent)
    /\ UNCHANGED <<moduleVars, homeVars, pageVars, callVars, hostVars, timeVars>>

Toggle == \E continent \in Continents : ToggleGroup(continent)

InitGroups == InitList
NextGroups == NavigateList \/ Unmount \/ Toggle
SpecGroups == InitGroups /\ [][NextGroups]_vars

-----------------------------------------------------------------------------
(* Notions the claims are stated with                                      *)

Now == Chars("now")
Rendered == screen # "Unmounted"
WarningScreens == {"TooShort", "NotFound", "BadTimeFormat", "InvalidTime",
                   "Unrecognized"}

\* the value of a two-digit string
TwoDigits(s) == 10 * digitValue(s[1]) + digitValue(s[2])

\* The time token of the route format: "now" in any case, or HHMM with
\* HH <= 23 and MM <= 59
IsClockTime(t) ==
    /\ Len(t) = 4
    /\ \A i \in 1..4 : t[i] \in Range(DigitChars)
    /\ TwoDigits(SubSeq(t, 1, 2)) <= 23
    /\ TwoDigits(SubSeq(t, 3, 4)) <= 59
IsTimeToken(t) == toLowerCase(t) = Now \/ IsClockTime(t)

\* the abbreviation table and candidate lengths of the deployed parser
AbbreviationTable == IF variant = "D" THEN SPECIAL_TZ_MAP ELSE getSpecialTzMap
CandidateLengths == IF variant = "D" THEN {4, 3, 2} ELSE {3, 2}
AllAbbreviations == {Chars(s) : s \in
    {"CET", "IST", "PST", "UTC", "EST", "GMT", "JST", "AEST"}}
CountryCodes == {toUpperCase(countriesData[i].cca2) : i \in DOMAIN countriesData}
GenericFlags == {"", "GlobeAltIcon"}

Cleaned == toUpperCase(trim(input))
CodeAt(L) == SubSeq(Cleaned, 1, L)
TimeAt(L) == toLowerCase(SubSeq(Cleaned, L + 1, Len(Cleaned)))

\* the deployed parser's resolver and time check, applied to the split at L
ResolvesAt(L) ==
    IF variant = "D" THEN getTimeZoneFromCodeV1(CodeAt(L)).kind = "ok"
    ELSE getTimeZoneFromCodeV2(CodeAt(L)).kind = "ok"
TimeCheckAt(L) ==
    IF variant = "D" THEN isValidTimeString(TimeAt(L)) ELSE isValidTimeV2(TimeAt(L))
AcceptedAt(L) == L <= Len(Cleaned) /\ ResolvesAt(L) /\ TimeCheckAt(L)

\* a code the tables of the deployed parser hold, with a usable zone
KnownCode(c) ==
    \/ c \in DOMAIN AbbreviationTable
    \/ c \in DOMAIN momentCountries /\ c \in CountryCodes

-----------------------------------------------------------------------------
(* C1..C10                                                                 *)

\* C1: parseUserInput returns the split at the longest candidate length at
\* which the code resolves and the remainder passes the time check, and
\* null when there is none; "CETnow" gives code "CET" and time "now", and
\* the split "CE" + "Tnow" is never returned.
C1_LongestMatchWins ==
    (variant \in ParserVariants /\ Rendered /\ screen # "TooShort"
        /\ parsed # Thrown) =>
        LET accepted == {L \in CandidateLengths : AcceptedAt(L)}
        IN  /\ accepted # {} =>
                /\ parsed.kind = "ok"
                /\ \A L \in accepted : L <= Len(parsed.codePart)
                /\ parsed.codePart = CodeAt(Len(parsed.codePart))
                /\ parsed.timePart = TimeAt(Len(parsed.codePart))
            /\ parsed.kind = "ok" => Len(parsed.codePart) \in accepted
            /\ Cleaned = Chars("CETNOW") =>
                /\ parsed.kind = "ok"
                /\ parsed.codePart = Chars("CET")
                /\ parsed.timePart = Now
            /\ ~ (parsed.kind = "ok" /\ parsed.codePart = Chars("CE"))

C1_Witness ==
    /\ variant \in ParserVariants
    /\ input = Chars("CETnow")
    /\ screen = "Display"
    /\ parsed.kind = "ok"
    /\ parsed.codePart = Chars("CET")
    /\ parsed.timePart = Now

\* C2: for every key k of the abbreviation table the deployed parser uses,
\* parseUserInput(k + "now") succeeds with the zone mapped to k and the
\* time part "now".
C2_EveryAbbreviationParses ==
    \A k \in DOMAIN AbbreviationTable :
        (variant \in ParserVariants /\ Rendered /\ Cleaned = k \o Chars("NOW")) =>
            /\ parsed.kind = "ok"
            /\ parsed.zoneInfo.timezone = AbbreviationTable[k]
            /\ parsed.timePart = Now

\* the case of C3: the route token is a country code of the table followed
\* by a clock time
CountryClockInput(i) ==
    /\ variant \in ParserVariants
    /\ Rendered
    /\ Len(input) = 6
    /\ toUpperCase(SubSeq(input, 1, 2)) = toUpperCase(countriesData[i].cca2)
    /\ IsClockTime(SubSeq(input, 3, 6))

CountryClockResult(i) ==
    /\ parsed.kind = "ok"
    /\ zonesForCountry(countriesData[i].cca2) # Null
    /\ parsed.zoneInfo.timezone = zonesForCountry(countriesData[i].cca2).zones[1]
    /\ zone = parsed.zoneInfo.timezone
    /\ parsed.zoneInfo.displayName = Chars(countriesData[i].common)
    /\ hour = Num(TwoDigits(SubSeq(input, 3, 4)))
    /\ minute = Num(TwoDigits(SubSeq(input, 5, 6)))

C4_TimeCheckIsExact ==
    (variant \in ParserVariants /\ Rendered /\ screen # "TooShort") =>
        /\ \A L \in CandidateLengths :
              L <= Len(Cleaned) => (TimeCheckAt(L) <=> IsTimeToken(TimeAt(L)))
        /\ parsed.kind = "ok" => IsTimeToken(parsed.timePart)
        /\ screen = "Display" /\ shown.kind = "time" =>
              hour.value \in 0..23 /\ minute.value \in 0..59

\* C5: in every page variant a route token that ends in four digits with
\* the hour above 23 or the minute above 59 ends on a warning screen.
C5_OutOfRangeIsAFailure ==
    LET n == Len(input)
        t == SubSeq(input, n - 3, n)
    IN  (Rendered /\ n >= 4 /\ allDigits(t) /\ ~ IsClockTime(t)) =>
            screen \in WarningScreens

\* C6: the page reports the too-short failure exactly for inputs shorter
\* than 2 characters, and the unrecognized failure for every longer input
\* that has no split into a known code and a time token.
C6_TooShortAndUnrecognized ==
    (variant \in ParserVariants /\ Rendered) =>
        /\ screen = "TooShort" <=> Len(input) < 2
        /\ (/\ Len(input) >= 2
            /\ \A L \in {4, 3, 2} :
                  ~ (L <= Len(Cleaned) /\ KnownCode(CodeAt(L)) /\ IsTimeToken(TimeAt(L))))
           => screen = "Unrecognized"

AbbreviationResult(r, k, tz) ==
    toUpperCase(code) = Chars(k) =>
        /\ r.kind = "ok"
        /\ r.timezone = tz
        /\ r.displayName = Chars(k)
        /\ r.flag \in GenericFlags

\* C8: for each of the 8 abbreviations getTimeZoneFromCode returns the
\* mapped zone, the upper-cased code as display name and a generic flag.
C8_EightAbbreviations ==
    zoneInfoV1 # Pending =>
        \A r \in {zoneInfoV1, zoneInfoV2} :
            /\ AbbreviationResult(r, "CET", "Europe/Paris")
            /\ AbbreviationResult(r, "IST", "Asia/Kolkata")
            /\ AbbreviationResult(r, "PST", "America/Los_Angeles")
            /\ AbbreviationResult(r, "UTC", "UTC")
            /\ AbbreviationResult(r, "EST", "America/New_York")
            /\ AbbreviationResult(r, "GMT", "Europe/London")
            /\ AbbreviationResult(r, "JST", "Asia/Tokyo")
            /\ AbbreviationResult(r, "AEST", "Australia/Sydney")

\* what C9 says of one result r of a resolver whose abbreviation table is tbl
CountryOnlyForTwoChars(r, tbl) ==
    /\ (Len(code) # 2 /\ toUpperCase(code) \notin DOMAIN tbl) => r = Null
    /\ (Len(code) = 2 /\ r.kind = "ok") =>
          \E i \in DOMAIN countriesData :
              /\ toUpperCase(countriesData[i].cca2) = toUpperCase(code)
              /\ r.displayName = Chars(countriesData[i].common)

\* C9: a code that is not 2 characters long and not an abbreviation gives
\* null, and a 2-character code gives a country only when it is the alpha-2
\* code of a country of the table, ignoring case.
C9_CountryTableOnlyForTwoChars ==
    zoneInfoV1 # Pending =>
        /\ CountryOnlyForTwoChars(zoneInfoV1, SPECIAL_TZ_MAP)
        /\ CountryOnlyForTwoChars(zoneInfoV2, getSpecialTzMap)

C9_Witness ==
    /\ code = Chars("AES")
    /\ zoneInfoV1 = Null
    /\ zoneInfoV2 = Null

\* C10: getTimeZoneFromCode never throws: a code of a country without a zone
\* list gives null.
C10_ResolverNeverThrows ==
    zoneInfoV1 # Pending =>
        /\ zoneInfoV1 # Thrown
        /\ zoneInfoV2 # Thrown
        /\ (toUpperCase(code) \in CountryCodes \ DOMAIN momentCountries) =>
              zoneInfoV1 = Null /\ zoneInfoV2 = Null


-----------------------------------------------------------------------------
(* The time engine                                                         *)

\* the text of a time of day, in any of the formats the pages use
TimeFormats == {"HH:mm", "HH:mm:ss", "h:mm a", "h.mm a"}
\* the DateTime the comparison rows of the displayed page convert
RefTime == refTime(variant, CurrentPage, baseTime, currentTime)
\* whether a row shows the instant ts as a time of day of zone z
ShowsInstant(row, ts, z) ==
    \E f \in TimeFormats : row = toFormat(DateTime(ts, z), f)

\* C11: getCountryTime never fails the caller: for a target timezone the
\* host database does not know, the row shows the base instant as a time of
\* day in UTC, a well-formed time and not the invalid-time marker.
C11_UnknownZoneFallsBackToUTC ==
    \A k \in DOMAIN selectedCountries :
        (/\ screen = "Display"
         /\ RefTime.kind = "valid"
         /\ selectedCountries[k].timezone \notin HostZones) =>
            /\ selectedTimes[k] # INVALID
            /\ ShowsInstant(selectedTimes[k], RefTime.ts, "UTC")

\* whether the displayed page shows the current time
NowDisplayed == screen = "Display" /\ shown \in {LiveTime, HostClockTime}

\* C12: on a "now" page of any variant the base time is the instant read
\* from the wall clock, expressed in the resolved timezone: the text shows
\* that instant's hour and minute in the zone, not the host's local hour and
\* minute.
C12_NowIsTheInstantInTheZone ==
    (NowDisplayed /\ zone \in HostZones) =>
        /\ sampled <= clock
        /\ baseTime.kind = "valid"
        /\ hourOf(baseTime) = hourOf(DateTime(sampled, zone))
        /\ minuteOf(baseTime) = minuteOf(DateTime(sampled, zone))
        /\ formattedLocalTime =
              toFormat(DateTime(sampled, zone), baseFormat(variant, CurrentPage))

\* whether the displayed page shows an explicit time of 00:00 to 23:59
ExplicitDisplayed ==
    /\ screen = "Display"
    /\ shown \notin {LiveTime, HostClockTime}
    /\ leq(hour, 23)
    /\ leq(minute, 59)

\* the text of the time of day h:m in a format
ClockText(h, m, fmt) == toFormat(DateTime(h * HourSecs + m * Minute, "UTC"), fmt)

\* whether the base time shows the hour and minute of the route token
ShowsRouteTime ==
    /\ baseTime.kind = "valid"
    /\ hourOf(baseTime) = hour.value
    /\ minuteOf(baseTime) = minute.value
    /\ formattedLocalTime =
          ClockText(hour.value, minute.value, baseFormat(variant, CurrentPage))

\* whether some instant of the day d reads h:m:00 on the wall clock of z:
\* false inside the hour a zone skips when its daylight saving time starts
ExistsOn(d, h, m, z) ==
    \E off \in {ZoneRules[z].inside, ZoneRules[z].outside} :
        offset(z, d * Day + h * HourSecs + m * Minute - off) = off

\* C13 as stated: for every hour 0..23, minute 0..59 and resolved zone, the
\* base time built from the explicit time shows exactly that hour and minute.
C13_ExplicitTimeRoundTrips == ExplicitDisplayed => ShowsRouteTime

\* C13 amended: the same, for a time that exists on today's date in the
\* zone.
C13_ExistingTimeRoundTrips ==
    (/\ ExplicitDisplayed
     /\ ExistsOn(dayOf(DateTime(clock, zone)), hour.value, minute.value, zone))
        => ShowsRouteTime

\* 13:30 in America/Los_Angeles, asked for before the clocks of that day
\* are moved forward
C13_Witness ==
    /\ variant \in ParserVariants
    /\ input = Chars("PST1330")
    /\ ExplicitDisplayed
    /\ offset(zone, clock) # offset(zone, baseTime.ts)
    /\ formattedLocalTime = Chars("13:30")

\* whether a row is the instant ts expressed in the row's own timezone
RowDenotes(row, ts, tz) == tz \in HostZones /\ ShowsInstant(row, ts, tz)

\* C14: in every render, in "now" mode and in explicit mode, every row of
\* the comparison list and of the popular list shows the instant of the
\* base time, expressed in the row's own timezone.
C14_RowsShareTheBaseInstant ==
    (screen = "Display" /\ baseTime.kind = "valid") =>
        /\ formattedLocalTime =
              toFormat(baseTime, baseFormat(variant, CurrentPage))
        /\ \A k \in DOMAIN selectedCountries :
              RowDenotes(selectedTimes[k], baseTime.ts, selectedCountries[k].timezone)
        /\ \A k \in DOMAIN popularTimezones(variant) :
              RowDenotes(popularTimes[k], baseTime.ts, popularTimezones(variant)[k])

\* C15: while a "now" page stays mounted the timer re-samples the wall
\* clock and the page is rendered from the new sample: every instant the
\* wall clock reaches is eventually reflected by the displayed time, unless
\* the page is left.
C15_NowPageKeepsUp ==
    \A t \in LiveInstants :
        (NowDisplayed /\ clock = t) ~> (~ NowDisplayed \/ sampled >= t)

\* C16: the one-second timer is cancelled when the page is left (a change of
\* the time mode is a change of the route token, which leaves the page): a
\* mounted page has at most one active timer, none is active after the
\* teardown, and the sampled current time is not updated after it.
C16_TimerEndsWithThePage ==
    /\ [](intervals <= 1)
    /\ [](screen = "Unmounted" => intervals = 0)
    /\ [][(screen = "Unmounted" /\ screen' = "Unmounted")
            => currentTime' = currentTime]_vars

\* a "now" page of the latest variant was left, its timer was cleared, and
\* the wall clock has moved on since its last sample
C16_Witness ==
    /\ variant = "E"
    /\ screen = "Unmounted"
    /\ cancelled
    /\ intervals = 0
    /\ currentTime # Null
    /\ currentTime.ts < clock

-----------------------------------------------------------------------------
(* Letter case                                                             *)

\* parseUserInput of the deployed variant
parseUserInput(in) ==
    IF variant = "D" THEN parseUserInputV1(in) ELSE parseUserInputV2(in)

\* whether two results carry the same code, timezone and time part
SameParse(p, q) ==
    IF p.kind = "ok" /\ q.kind = "ok"
    THEN /\ p.codePart = q.codePart
         /\ p.zoneInfo.timezone = q.zoneInfo.timezone
         /\ p.timePart = q.timePart
    ELSE p = q

IsAscii(s) == \A i \in 1..Len(s) : s[i] # KelvinSign

CaseInsensitive ==
    /\ SameParse(parseUserInput(input), parseUserInput(toUpperCase(input)))
    /\ SameParse(parseUserInput(input), parseUserInput(toLowerCase(input)))
    /\ parseUserInput(input).kind = "ok" =>
          parseUserInput(input).codePart = toUpperCase(parseUserInput(input).codePart)

\* C17 as stated: for every input x, parseUserInput gives the same code,
\* timezone and time part for x, for x in upper case and for x in lower
\* case, and the code part of a result is in upper case.
C17_CaseInsensitive ==
    (variant \in ParserVariants /\ Rendered) => CaseInsensitive

\* C17 amended: the same, for every input of ASCII characters.
C17_CaseInsensitiveOnAscii ==
    (variant \in ParserVariants /\ Rendered /\ IsAscii(input)) => CaseInsensitive

C17_Witness ==
    /\ variant \in ParserVariants
    /\ input = Chars("cetNOW")
    /\ parsed = parseUserInput(Chars("CETnow"))
    /\ parsed = parseUserInput(Chars("cetnow"))
    /\ parsed.kind = "ok"
    /\ parsed.codePart = Chars("CET")
    /\ parsed.timePart = Now

-----------------------------------------------------------------------------
(* Time construction after a parse                                         *)

\* C18: in the variants that use parseUserInput, once the parse succeeded
\* the "invalid time" warning appears only for a resolved timezone the host
\* database does not know, never because of the digits of the time part, and
\* the construction raises nothing.
C18_InvalidTimeOnlyForUnknownZone ==
    (variant \in ParserVariants /\ parsed.kind = "ok") =>
        /\ screen # "Exception"
        /\ screen = "InvalidTime" => parsed.zoneInfo.timezone \notin HostZones

-----------------------------------------------------------------------------
(* End to end                                                              *)

\* the row of America/Los_Angeles in the popular list
LosAngelesRow == popularTimes[3]

\* C20: "TR1330" resolves to Europe/Istanbul with the display name Turkey
\* and the explicit time 13:30, and the row of America/Los_Angeles shows a
\* time of day 10 or 11 hours earlier: 11 hours in winter, 10 in summer.
C20_TurkeyAtHalfPastOne ==
    (screen # "Unmounted" /\ input = Chars("TR1330")) =>
        /\ screen = "Display"
        /\ zone = "Europe/Istanbul"
        /\ variant \in ParserVariants =>
              /\ parsed.kind = "ok"
              /\ parsed.zoneInfo.timezone = "Europe/Istanbul"
              /\ parsed.zoneInfo.displayName = Chars("Turkey")
              /\ parsed.timePart = Chars("1330")
        /\ hour = Num(13)
        /\ minute = Num(30)
        /\ formattedLocalTime = ClockText(13, 30, baseFormat(variant, CurrentPage))
        /\ popularTimezones(variant)[3] = "America/Los_Angeles"
        /\ LosAngelesRow \in {ClockText(3, 30, rowFormat(variant, CurrentPage)),
                              ClockText(2, 30, rowFormat(variant, CurrentPage))}
        /\ clock \in Winter..(Winter + MaxTicks) =>
              LosAngelesRow = ClockText(2, 30, rowFormat(variant, CurrentPage))
        /\ clock \in Summer..(Summer + MaxTicks) =>
              LosAngelesRow = ClockText(3, 30, rowFormat(variant, CurrentPage))

\* a summer day: Los Angeles is 10 hours behind Istanbul
C20_Witness ==
    /\ variant = "E"
    /\ input = Chars("TR1330")
    /\ screen = "Display"
    /\ clock = Summer
    /\ formattedLocalTime = Chars("13:30")
    /\ LosAngelesRow = Chars("03:30")

-----------------------------------------------------------------------------
(* Repeated calls                                                          *)

\* whether calls i and j are calls of the same function with the same
\* argument
SameCall(i, j) == calls[i].fn = calls[j].fn /\ calls[i].arg = calls[j].arg

\* a call that returned null or raised
Failed(i) == calls[i].result \in {Null, Thrown}

-----------------------------------------------------------------------------
(* The comparison list                                                     *)

\* whether an entry of the list has the code c
Listed(c) == \E k \in DOMAIN selectedCountries : selectedCountries[k].code = c

\* C21: the comparison list never holds two entries with the same code,
\* whatever selections, popular additions, removals and clear-all happened,
\* and selecting a country whose code is listed leaves the list unchanged.
C21_OneEntryPerCode ==
    /\ [](\A i, j \in DOMAIN selectedCountries :
            selectedCountries[i].code = selectedCountries[j].code => i = j)
    /\ [][\A i \in ListSamples :
            (SelectCountry(i) /\ Listed(selectorCountry(i).code))
                => selectedCountries' = selectedCountries]_vars

\* Turkey is in the list from the selector, next to the popular row of
\* Istanbul, so that a further click on Turkey in the selector finds its code
C21_Witness ==
    /\ variant = "E"
    /\ Len(selectedCountries) = 2
    /\ Listed(Chars("tr"))
    /\ Listed(Chars("TR"))
    /\ ENABLED SelectCountry(1)

\* C22: after any selections from the selector and popular additions, the
\* comparison list holds at most one entry per timezone identifier.
C22_OneRowPerTimezone ==
    \A i, j \in DOMAIN selectedCountries :
        selectedCountries[i].timezone = selectedCountries[j].timezone => i = j

-----------------------------------------------------------------------------
(* The order of the candidate lengths                                      *)

\* a sequence back to front
reversed(lens) == [i \in 1..Len(lens) |-> lens[Len(lens) + 1 - i]]

\* parseUserInput of the deployed variant with the candidate lengths tried
\* shortest first
parseShortestFirst(in) ==
    IF variant = "D" THEN parseLoopV1(trim(in), reversed(codeLensV1))
    ELSE parseLoopV2(toUpperCase(trim(in)), reversed(codeLensV2))

\* C23: with the tables of the program no input is valid at two candidate
\* lengths: at most one length gives both a resolvable code and a valid
\* time token, so parseUserInput returns the same result when the lengths
\* are tried in the opposite order.
C23_OneCandidateLength ==
    (variant \in ParserVariants /\ Rendered) =>
        /\ \A L1, L2 \in CandidateLengths :
              (AcceptedAt(L1) /\ AcceptedAt(L2)) => L1 = L2
        /\ parseShortestFirst(input) = parseUserInput(input)

\* "ISTnow": IST is an abbreviation and IS a country, but "tnow" is no time
C23_Witness ==
    /\ variant \in ParserVariants
    /\ input = Chars("ISTnow")
    /\ parsed.kind = "ok"
    /\ parsed.codePart = Chars("IST")
    /\ AcceptedAt(3)
    /\ CodeAt(2) \in CountryCodes
    /\ ~ AcceptedAt(2)


-----------------------------------------------------------------------------
(* The Home form and the route it pushes                                    *)

\* the time token of the time the form accepted
acceptedTime ==
    CASE timeMode = "now" -> Now
      [] homeForm = "T" -> timeValue
      [] homeForm = "P" -> SubSeq(timeValue, 1, 2) \o SubSeq(timeValue, 4, 5)
      [] OTHER -> pad2(timeValue.hour) \o pad2(timeValue.minute)

\* the page of the pushed route is on screen
RouteLoaded == route # NoRoute /\ Rendered /\ input = routeInput

\* C24: for every country the Home form lets the user select and every
\* time it accepts, parseUserInput parses the pushed route back into that
\* country and that time; the route is never rejected as too short or
\* unrecognized.
C24_RouteRoundTrip ==
    (variant \in ParserVariants /\ RouteLoaded) =>
        /\ screen \notin {"TooShort", "Unrecognized"}
        /\ parsed.kind = "ok"
        /\ parsed.codePart = selectedCountry.code
        /\ parsed.zoneInfo.displayName = selectedCountry.name
        /\ parsed.timePart = acceptedTime


\* C25: on the Home form a country is selected only while the search box
\* holds exactly that country's name; every edit of the search text clears
\* the selection, and a submit with nothing selected sets the
\* select-a-country message and pushes no route.
C25_SelectionFollowsSearch ==
    /\ [](selectedCountry # Null =>
            /\ selectedCountry \in Range(allCountries)
            /\ search = selectedCountry.name)
    /\ [][Edit => selectedCountry' = Null]_vars
    /\ [][(Submit /\ selectedCountry = Null) =>
            (error' = SelectError /\ route' = NoRoute)]_vars

\* "Turkey" was clicked, the text was edited to "Turke" and the form was
\* submitted in the "now" mode: the message is shown, nothing is pushed
C25_Witness ==
    /\ homeForm \in HomeForms
    /\ search = Chars("Turke")
    /\ Chars("Turkey") \in {c.name : c \in Range(filteredCountries(search))}
    /\ selectedCountry = Null
    /\ timeMode = "now"
    /\ error = SelectError
    /\ route = NoRoute


-----------------------------------------------------------------------------
(* The expanded groups                                                      *)

\* C26: toggleGroup(continent) flips the membership of that continent in
\* the set of expanded groups and of no other continent; applied a second
\* time to the same continent it gives the original set back.
C26_ToggleFlipsOne ==
    [][\A c \in Continents : ToggleGroup(c) =>
            /\ (c \in expandedGroups') # (c \in expandedGroups)
            /\ \A d \in Continents \ {c} :
                  (d \in expandedGroups') = (d \in expandedGroups)
            /\ expandedGroups' \subseteq Continents
            /\ toggleGroup(expandedGroups', c) = expandedGroups]_vars

\* two groups are open on a page that shows the selector
C26_Witness ==
    /\ screen = "Display"
    /\ expandedGroups = {"Asia", "Europe"}
    /\ \E c \in Continents \ expandedGroups : ENABLED ToggleGroup(c)

=============================================================================
